---- MODULE Spec2Model ----
(***************************************************************************)
(* A model of MiniTiff (src/unnamed/part_000): save, load and info over a  *)
(* byte-exact file.                                                        *)
(*                                                                         *)
(* Representation.  A byte is a number in 0..255 and a file is a sequence  *)
(* of bytes (offset o is index o+1).  The host is little-endian, as the    *)
(* code assumes, so an object in memory is the sequence of its bytes, low  *)
(* byte first.  A 32-bit quantity (uint32_t or int) is held as the integer *)
(* in -2^31..2^31-1 with the same bit pattern: the uint32_t 0xFFFFFFFF is  *)
(* -1, exactly the `offset_for_data = -1` of the source.  A uint16_t is a  *)
(* number in 0..65535.                                                     *)
(***************************************************************************)
EXTENDS Integers, Sequences, FiniteSets, TLC

-----------------------------------------------------------------------------
(* Bytes and fixed-width integers *)

Min(a, b) == IF a < b THEN a ELSE b

B0(x) == x % 256
B1(x) == (x \div 256) % 256
B2(x) == (x \div 65536) % 256
B3(x) == (x \div 16777216) % 256

\* The 32-bit quantity whose bytes are b0 (lowest) .. b3 (highest).
Mk32(b0, b1, b2, b3) ==
    b0 + 256 * b1 + 65536 * b2 + 16777216 * (IF b3 >= 128 THEN b3 - 256 ELSE b3)

\* Conversion of a 32-bit quantity to uint16_t (the argument of swap16).
ToU16(x) == B0(x) + 256 * B1(x)

\* Objects in the memory of the little-endian host.
Mem16(x) == <<B0(x), B1(x)>>
Mem32(x) == <<B0(x), B1(x), B2(x), B3(x)>>
Val16(m) == m[1] + 256 * m[2]
Val32(m) == Mk32(m[1], m[2], m[3], m[4])

\* a * b in uint32_t arithmetic (mod 2^32), computed byte by byte so that no
\* intermediate value leaves 32 bits.
MulU32(a, b) ==
    LET x == Mem32(a)
        y == Mem32(b)
        c0 == x[1] * y[1]
        c1 == x[1] * y[2] + x[2] * y[1] + (c0 \div 256)
        c2 == x[1] * y[3] + x[2] * y[2] + x[3] * y[1] + (c1 \div 256)
        c3 == x[1] * y[4] + x[2] * y[3] + x[3] * y[2] + x[4] * y[1] + (c2 \div 256)
    IN  Mk32(c0 % 256, c1 % 256, c2 % 256, c3 % 256)

-----------------------------------------------------------------------------
(* Tag identifiers *)

IFD_ImageType == 254
IFD_Width == 256
IFD_Height == 257
IFD_BitsPerSample == 258
IFD_Compression == 259
IFD_PhotometricInterpretation == 262
IFD_FillOrder == 266
IFD_OffsetForData == 273
IFD_Orientation == 274
IFD_NumComponents == 277
IFD_RowsPerStrip == 278
IFD_TotalBytesForData == 279
IFD_PlanarConfiguration == 284
IFD_SampleFormat == 339

-----------------------------------------------------------------------------
(* internal::IFDEntry *)

swap32(x) == Mk32(B3(x), B2(x), B1(x), B0(x))

\* A swap16 that loses the low byte.
swap16_high(x) == x \div 256

\* x is a uint16_t: (x>>8) | (x<<8), truncated to 16 bits.
swap16(x) == (x \div 256) + 256 * (x % 256)

\* IFDEntry(): id = 0, field_type = 4, num_items = 1, value = 0.
IFDEntryDefault == [id |-> 0, field_type |-> 4, num_items |-> 1, value |-> 0]

\* IFDEntry(new_id, new_value)
IFDEntryOf(new_id, new_value) ==
    [id |-> new_id, field_type |-> 4, num_items |-> 1, value |-> new_value]

\* The 12 bytes of an entry in memory, and the entry held by 12 bytes.
IFDEntryMem(e) ==
    Mem16(e.id) \o Mem16(e.field_type) \o Mem32(e.num_items) \o Mem32(e.value)

IFDEntryFromMem(m) ==
    [id         |-> Val16(SubSeq(m, 1, 2)),
     field_type |-> Val16(SubSeq(m, 3, 4)),
     num_items  |-> Val32(SubSeq(m, 5, 8)),
     value      |-> Val32(SubSeq(m, 9, 12))]

\* A swap that takes the 2-byte width for BitsPerSample alone.
IFDEntry_swap_bits_only(e) ==
    LET id == swap16(e.id)
        field_type == swap16(e.field_type)
        num_items == swap32(e.num_items)
        value ==
            IF id = IFD_BitsPerSample /\ field_type = 3 /\ num_items = 1
            THEN swap16(ToU16(e.value))
            ELSE swap32(e.value)
    IN  [id |-> id, field_type |-> field_type, num_items |-> num_items,
         value |-> value]

\* void swap(): lines 95-111.
IFDEntry_swap(e) ==
    LET id == swap16(e.id)
        field_type == swap16(e.field_type)
        num_items == swap32(e.num_items)
        value ==
            IF id = IFD_BitsPerSample
            THEN IF field_type = 3 /\ num_items = 1
                 THEN swap16(ToU16(e.value))
                 ELSE swap32(e.value)
            ELSE IF field_type = 3
                 THEN swap16(ToU16(e.value))
                 ELSE swap32(e.value)
    IN  [id |-> id, field_type |-> field_type, num_items |-> num_items,
         value |-> value]

-----------------------------------------------------------------------------
(* internal::Header: 8 bytes, byte_order[2], magic[2], offset_first_ifd *)

HeaderDefault == <<73, 73, 42, 0, 8, 0, 0, 0>>

\* A header check that does not compare the two byte-order bytes.
Header_isValid_first_byte(hd) ==
    IF hd[1] = 73 /\ hd[3] = 42 /\ hd[4] = 0 THEN TRUE
    ELSE IF hd[1] = 77 /\ hd[4] = 42 /\ hd[3] = 0 THEN TRUE
    ELSE FALSE

Header_isValid(hd) ==
    IF hd[1] # hd[2] THEN FALSE
    ELSE IF hd[1] = 73 /\ hd[3] = 42 /\ hd[4] = 0 THEN TRUE
    ELSE IF hd[1] = 77 /\ hd[4] = 42 /\ hd[3] = 0 THEN TRUE
    ELSE FALSE

Header_mustSwapBytes(hd) == hd[4] = 42

Header_offset_first_ifd(hd) == Val32(SubSeq(hd, 5, 8))

-----------------------------------------------------------------------------
(* FileReader *)

FileReaderNew ==
    [open |-> FALSE, pos |-> 0, bytes_read |-> 0,
     swap_16b_data |-> FALSE, swap_32b_data |-> FALSE]

\* fread(data, 1, num_bytes, f): the bytes obtained at the current position.
fread(bytes, pos, num_bytes) ==
    IF pos >= Len(bytes) \/ num_bytes = 0 THEN <<>>
    ELSE SubSeq(bytes, pos + 1, Min(pos + num_bytes, Len(bytes)))

\* A buffer after fread stored `got` at its start: the rest keeps what it held.
Overlay(got, buf) ==
    [k \in 1..Len(buf) |-> IF k <= Len(got) THEN got[k] ELSE buf[k]]

\* The loops of readBytes: swap16 (unit 2) or swap32 (unit 4) applied to each
\* of the num_bytes/unit leading units of the buffer.
SwapUnits(buf, unit) ==
    LET n == Len(buf) \div unit
    IN  [k \in 1..Len(buf) |->
            IF (k - 1) \div unit < n
            THEN buf[((k - 1) \div unit) * unit + (unit - ((k - 1) % unit))]
            ELSE buf[k]]

\* readBytes(data, num_bytes), data holding `buf` before the call.
FileReader_readBytes(f, bytes, buf) ==
    LET num_bytes == Len(buf)
        got == fread(bytes, f.pos, num_bytes)
        mem == Overlay(got, buf)
        data == IF f.swap_16b_data THEN SwapUnits(mem, 2)
                ELSE IF f.swap_32b_data THEN SwapUnits(mem, 4)
                ELSE mem
    IN  [f    |-> [f EXCEPT !.pos = @ + Len(got),
                            !.bytes_read = @ + num_bytes],
         data |-> data,
         n    |-> Len(got),
         ok   |-> Len(got) = num_bytes]

\* seek(uint32_t offset): an offset of 2^31 or more (negative as a bit pattern)
\* lies beyond the end of every file of the model.
FileReader_seek(f, offset) ==
    [f EXCEPT !.pos = IF offset < 0 THEN 2147483647 ELSE offset]

-----------------------------------------------------------------------------
(* A call in progress.  A machine m is the state of one call of the library:
   m.pc  the place the call has reached ("done" once it has returned),
   m.f   the call's FileReader, m.fr its local variables,
   m.cb  what the caller's callback (load's consumer, info's visitor) was
         given and did, m.ret the value returned,
   m.tr  a record of what the call did (history, not program state).       *)

LoadFrameNew ==
    [header              |-> HeaderDefault,
     swap_bytes          |-> FALSE,
     num_ifds            |-> 0,
     i                   |-> 0,
     w                   |-> 0,
     h                   |-> 0,
     num_components      |-> 0,
     bits_per_component  |-> 0,
     offset_for_data     |-> -1,
     total_data_bytes    |-> 0,
     swap_component_data |-> FALSE,
     ifd                 |-> IFDEntryDefault]

CallbackNew ==
    [calls |-> 0, w |-> 0, h |-> 0, num_components |-> 0,
     bits_per_component |-> 0, asked |-> 0, data |-> <<>>, result |-> FALSE,
     visits |-> <<>>, eof_visits |-> 0]

TraceNew ==
    [short |-> FALSE, indirect |-> 0, passed |-> {}, flag_sets |-> 0]

MachineNew(pc) ==
    [pc |-> pc, f |-> FileReaderNew, fr |-> LoadFrameNew, cb |-> CallbackNew,
     ret |-> FALSE, tr |-> TraceNew]

\* return v: the FileReader's destructor closes the file.
Return(m, v) == [m EXCEPT !.pc = "done", !.ret = v, !.f.open = FALSE]

\* A file of the file system: absent, or present with its bytes.
NoFile == [exists |-> FALSE, bytes |-> <<>>]
FileOf(bytes) == [exists |-> TRUE, bytes |-> bytes]

-----------------------------------------------------------------------------
(* load, lines 299-331: open, header, entry count *)

\* FileReader f; if (!f.open(ifilename)) return false;
load_open(m, file) ==
    IF ~file.exists THEN Return(m, FALSE)
    ELSE [m EXCEPT !.f.open = TRUE, !.pc = "load_header"]

\* Header header; f.read(header); if (!header.isValid()) return false;
\* swap_bytes = header.mustSwapBytes(); ...; f.seek(header.offset_first_ifd);
load_header(m, file) ==
    LET r == FileReader_readBytes(m.f, file.bytes, HeaderDefault)
        header == r.data
        swap_bytes == Header_mustSwapBytes(header)
        offset_first_ifd ==
            IF swap_bytes THEN swap32(Header_offset_first_ifd(header))
            ELSE Header_offset_first_ifd(header)
        m1 == [m EXCEPT !.f = r.f, !.fr.header = header,
                        !.tr.short = @ \/ ~r.ok]
    IN  IF ~Header_isValid(header) THEN Return(m1, FALSE)
        ELSE [m1 EXCEPT !.fr.swap_bytes = swap_bytes,
                        !.f = FileReader_seek(r.f, offset_first_ifd),
                        !.tr.passed = @ \cup {"header"},
                        !.pc = "load_count"]

\* uint16_t num_ifds = 0; f.read(num_ifds); if (swap_bytes) num_ifds = swap16(num_ifds);
\* then the locals of lines 318-324 and the first test of the loop.
load_count(m, file) ==
    LET r == FileReader_readBytes(m.f, file.bytes, Mem16(0))
        n == Val16(r.data)
        num_ifds == IF m.fr.swap_bytes THEN swap16(n) ELSE n
    IN  [m EXCEPT !.f = r.f, !.fr.num_ifds = num_ifds, !.fr.i = 0,
                  !.tr.short = @ \/ ~r.ok,
                  !.tr.passed = IF num_ifds = 0 THEN @ \cup {"scan"} ELSE @,
                  !.pc = IF num_ifds = 0 THEN "load_check" ELSE "load_scan"]

-----------------------------------------------------------------------------
(* load, lines 335-427: the switch on ifd.id.  The result is the locals after
   the entry, and fail = TRUE where the case returns false.                 *)

\* A switch without the PlanarConfiguration case.
load_switch_any_planar(fr, ifd) ==
    LET keep == [fail |-> FALSE, fr |-> fr]
        reject == [fail |-> TRUE, fr |-> fr]
    IN  CASE ifd.id = IFD_ImageType ->
                IF ifd.value # 0 THEN reject ELSE keep
          [] ifd.id = IFD_Width ->
                [fail |-> FALSE, fr |-> [fr EXCEPT !.w = ifd.value]]
          [] ifd.id = IFD_Height ->
                [fail |-> FALSE, fr |-> [fr EXCEPT !.h = ifd.value]]
          [] ifd.id = IFD_BitsPerSample ->
                [fail |-> FALSE, fr |-> [fr EXCEPT !.bits_per_component = ifd.value]]
          [] ifd.id = IFD_Compression ->
                IF ifd.value # 1 THEN reject ELSE keep
          [] ifd.id = IFD_PhotometricInterpretation ->
                IF ifd.value # 2 /\ ifd.value # 1 THEN reject ELSE keep
          [] ifd.id = IFD_OffsetForData ->
                [fail |-> FALSE, fr |-> [fr EXCEPT !.offset_for_data = ifd.value]]
          [] ifd.id = IFD_NumComponents ->
                [fail |-> FALSE, fr |-> [fr EXCEPT !.num_components = ifd.value]]
          [] ifd.id = IFD_RowsPerStrip ->
                IF ifd.value # fr.h THEN reject ELSE keep
          [] ifd.id = IFD_TotalBytesForData ->
                [fail |-> FALSE, fr |-> [fr EXCEPT !.total_data_bytes = ifd.value]]
          [] ifd.id = IFD_FillOrder ->
                [fail |-> FALSE,
                 fr |-> [fr EXCEPT !.swap_component_data = (ifd.value = 1)]]
          [] OTHER -> keep

load_switch(fr, ifd) ==
    LET keep == [fail |-> FALSE, fr |-> fr]
        reject == [fail |-> TRUE, fr |-> fr]
    IN  CASE ifd.id = IFD_ImageType ->
                IF ifd.value # 0 THEN reject ELSE keep
          [] ifd.id = IFD_Width ->
                [fail |-> FALSE, fr |-> [fr EXCEPT !.w = ifd.value]]
          [] ifd.id = IFD_Height ->
                [fail |-> FALSE, fr |-> [fr EXCEPT !.h = ifd.value]]
          [] ifd.id = IFD_BitsPerSample ->
                [fail |-> FALSE, fr |-> [fr EXCEPT !.bits_per_component = ifd.value]]
          [] ifd.id = IFD_Compression ->
                IF ifd.value # 1 THEN reject ELSE keep
          [] ifd.id = IFD_PhotometricInterpretation ->
                IF ifd.value # 2 /\ ifd.value # 1 THEN reject ELSE keep
          [] ifd.id = IFD_OffsetForData ->
                [fail |-> FALSE, fr |-> [fr EXCEPT !.offset_for_data = ifd.value]]
          [] ifd.id = IFD_NumComponents ->
                [fail |-> FALSE, fr |-> [fr EXCEPT !.num_components = ifd.value]]
          [] ifd.id = IFD_RowsPerStrip ->
                IF ifd.value # fr.h THEN reject ELSE keep
          [] ifd.id = IFD_TotalBytesForData ->
                [fail |-> FALSE, fr |-> [fr EXCEPT !.total_data_bytes = ifd.value]]
          [] ifd.id = IFD_PlanarConfiguration ->
                IF ifd.value # 1 THEN reject ELSE keep
          [] ifd.id = IFD_FillOrder ->
                [fail |-> FALSE,
                 fr |-> [fr EXCEPT !.swap_component_data = (ifd.value = 1)]]
          [] OTHER -> keep

\* One iteration of the loop of lines 326-430: IFDEntry ifd; f.read(ifd);
\* if (swap_bytes) ifd.swap(); the switch; ++i and the loop test.
\* Once a read obtains no byte the reader is at the end of the file, and every
\* remaining iteration reads nothing into a fresh IFDEntry, whose id 0 (also
\* when swapped) takes the default case: those iterations are taken at once.
load_entry(m, file) ==
    LET r == FileReader_readBytes(m.f, file.bytes, IFDEntryMem(IFDEntryDefault))
        e == IFDEntryFromMem(r.data)
        ifd == IF m.fr.swap_bytes THEN IFDEntry_swap(e) ELSE e
        s == load_switch(m.fr, ifd)
        n == IF r.n = 0 THEN m.fr.num_ifds - m.fr.i ELSE 1
        i == m.fr.i + n
        f == [r.f EXCEPT !.bytes_read = @ + 12 * (n - 1)]
        m1 == [m EXCEPT !.f = f, !.fr = [s.fr EXCEPT !.ifd = ifd, !.i = i],
                        !.tr.short = @ \/ ~r.ok]
    IN  IF s.fail THEN Return([m1 EXCEPT !.fr.i = m.fr.i], FALSE)
        ELSE [m1 EXCEPT !.tr.passed = IF i = m.fr.num_ifds THEN @ \cup {"scan"} ELSE @,
                        !.pc = IF i = m.fr.num_ifds THEN "load_check" ELSE "load_scan"]

-----------------------------------------------------------------------------
(* load, lines 432-461: post-scan validation, bits per component, data seek,
   the consumer                                                             *)

BitsSupported(b) == b = 8 \/ b = 16 \/ b = 32

\* A post-scan step that checks nothing.
load_check_nothing(m) ==
    [m EXCEPT !.tr.passed = @ \cup {"check"}, !.pc = "load_bits"]

\* if (w == 0 || h == 0 || total_data_bytes == 0 || offset_for_data == -1) return false;
load_check(m) ==
    IF m.fr.w = 0 \/ m.fr.h = 0 \/ m.fr.total_data_bytes = 0
       \/ m.fr.offset_for_data = -1
    THEN Return(m, FALSE)
    ELSE [m EXCEPT !.tr.passed = @ \cup {"check"}, !.pc = "load_bits"]

\* A resolution that leaves the value read in host order.
load_bits_unswapped(m, file, uninit) ==
    IF BitsSupported(m.fr.bits_per_component)
    THEN [m EXCEPT !.tr.passed = @ \cup {"bits"}, !.pc = "load_seek"]
    ELSE
        LET f1 == FileReader_seek(m.f, m.fr.bits_per_component)
            r == FileReader_readBytes(f1, file.bytes, Mem16(uninit))
            bits_per_component == Val16(r.data)
            m1 == [m EXCEPT !.f = r.f,
                            !.fr.bits_per_component = bits_per_component,
                            !.tr.short = @ \/ ~r.ok,
                            !.tr.indirect = @ + 1]
        IN  IF ~BitsSupported(bits_per_component) THEN Return(m1, FALSE)
            ELSE [m1 EXCEPT !.tr.passed = @ \cup {"bits"}, !.pc = "load_seek"]

\* Lines 439-450.  us_bpc is not initialized: `uninit` is what it holds before
\* the read, and what is left of it when the read obtains fewer than 2 bytes.
load_bits(m, file, uninit) ==
    IF BitsSupported(m.fr.bits_per_component)
    THEN [m EXCEPT !.tr.passed = @ \cup {"bits"}, !.pc = "load_seek"]
    ELSE
        LET f1 == FileReader_seek(m.f, m.fr.bits_per_component)
            r == FileReader_readBytes(f1, file.bytes, Mem16(uninit))
            us_bpc == Val16(r.data)
            bits_per_component ==
                IF m.fr.swap_bytes THEN swap16(us_bpc) ELSE us_bpc
            m1 == [m EXCEPT !.f = r.f,
                            !.fr.bits_per_component = bits_per_component,
                            !.tr.short = @ \/ ~r.ok,
                            !.tr.indirect = @ + 1]
        IN  IF ~BitsSupported(bits_per_component) THEN Return(m1, FALSE)
            ELSE [m1 EXCEPT !.tr.passed = @ \cup {"bits"}, !.pc = "load_seek"]

\* A step that sets the 16-bit flag for every depth.
load_seek_always_16(m) ==
    LET s16 == m.fr.swap_component_data
        s32 == m.fr.swap_component_data /\ m.fr.bits_per_component = 32
        f1 == FileReader_seek(m.f, m.fr.offset_for_data)
    IN  [m EXCEPT !.f = [f1 EXCEPT !.swap_16b_data = IF s16 THEN TRUE ELSE @,
                                   !.swap_32b_data = IF s32 THEN TRUE ELSE @],
                  !.tr.flag_sets = @ + (IF s16 THEN 1 ELSE 0) + (IF s32 THEN 1 ELSE 0),
                  !.pc = "load_consumer"]

\* f.seek(offset_for_data); then the two assignments of lines 456-459.
load_seek(m) ==
    LET s16 == m.fr.swap_component_data /\ m.fr.bits_per_component = 16
        s32 == m.fr.swap_component_data /\ m.fr.bits_per_component = 32
        f1 == FileReader_seek(m.f, m.fr.offset_for_data)
    IN  [m EXCEPT !.f = [f1 EXCEPT !.swap_16b_data = IF s16 THEN TRUE ELSE @,
                                   !.swap_32b_data = IF s32 THEN TRUE ELSE @],
                  !.tr.flag_sets = @ + (IF s16 THEN 1 ELSE 0) + (IF s32 THEN 1 ELSE 0),
                  !.pc = "load_consumer"]

\* The callers of sample.cpp.  A "reader" (lines 23-42) holds the descriptor t
\* it expects; when it is given exactly that, it sizes a zero-filled buffer of
\* w * h * num_comps * bits_per_comp / 8 bytes and returns
\* f.readBytes(buffer, total_bytes); otherwise it returns false.  A "probe"
\* (lines 74-77) reads nothing and returns true.
Zeros(n) == [k \in 1..n |-> 0]

Descriptor(w, h, num_comps, bits_per_comp) ==
    [w |-> w, h |-> h, num_comps |-> num_comps, bits_per_comp |-> bits_per_comp]

Probe == [kind |-> "probe", t |-> Descriptor(0, 0, 0, 0)]
ReaderOf(t) == [kind |-> "reader", t |-> t]

Consumer(cons, w, h, num_comps, bits_per_comp, f, file) ==
    IF cons.kind = "reader" /\ cons.t = Descriptor(w, h, num_comps, bits_per_comp)
    THEN LET total_bytes ==
                 MulU32(MulU32(MulU32(w, h), num_comps), bits_per_comp) \div 8
             r == FileReader_readBytes(f, file.bytes, Zeros(total_bytes))
         IN  [f |-> r.f, asked |-> total_bytes, data |-> r.data, result |-> r.ok]
    ELSE [f |-> f, asked |-> 0, data |-> <<>>, result |-> cons.kind = "probe"]

\* return fn(w, h, num_components, bits_per_component, f);
load_consumer(m, file, cons) ==
    LET c == Consumer(cons, m.fr.w, m.fr.h, m.fr.num_components,
                      m.fr.bits_per_component, m.f, file)
    IN  Return([m EXCEPT !.f = c.f,
                         !.cb.calls = @ + 1,
                         !.cb.w = m.fr.w,
                         !.cb.h = m.fr.h,
                         !.cb.num_components = m.fr.num_components,
                         !.cb.bits_per_component = m.fr.bits_per_component,
                         !.cb.asked = c.asked,
                         !.cb.data = c.data,
                         !.cb.result = c.result],
               c.result)

\* One step of load from wherever m is.
load_step(m, file, cons, uninit) ==
    CASE m.pc = "load_open"     -> load_open(m, file)
      [] m.pc = "load_header"   -> load_header(m, file)
      [] m.pc = "load_count"    -> load_count(m, file)
      [] m.pc = "load_scan"     -> load_entry(m, file)
      [] m.pc = "load_check"    -> load_check(m)
      [] m.pc = "load_bits"     -> load_bits(m, file, uninit)
      [] m.pc = "load_seek"     -> load_seek(m)
      [] m.pc = "load_consumer" -> load_consumer(m, file, cons)
      [] OTHER -> m

\* load(ifilename, fn) run to its return.  A call takes at most 7 steps besides
\* the loop's, and the loop takes at most one step per 12 bytes of the file
\* plus one.
RECURSIVE load_from(_, _, _, _, _)
load_from(m, file, cons, uninit, fuel) ==
    IF m.pc = "done" \/ fuel = 0 THEN m
    ELSE load_from(load_step(m, file, cons, uninit), file, cons, uninit, fuel - 1)

load(file, cons, uninit) ==
    load_from(MachineNew("load_open"), file, cons, uninit,
              9 + Len(file.bytes) \div 12)

-----------------------------------------------------------------------------
(* FileWriter and save, lines 144-163 and 205-257.  A machine of save is
   [pc, fw, sv, ret]: the FileWriter, the locals and the value returned.    *)

FileWriterNew == [open |-> FALSE, bytes_written |-> 0]

\* writeBytes(data, num_bytes): fwrite appends to the file.
FileWriter_writeBytes(fw, file, bytes) ==
    [fw   |-> [fw EXCEPT !.bytes_written = @ + Len(bytes)],
     file |-> FileOf(file.bytes \o bytes)]

\* The caller's pixel buffer: a null pointer, or memory whose byte at index k
\* (from 0) is pat[k mod Len(pat)].  The first n bytes of it:
NullData == [null |-> TRUE, pat |-> <<0>>]
DataOf(pat) == [null |-> FALSE, pat |-> pat]
DataBytes(data, n) == [k \in 1..n |-> data.pat[((k - 1) % Len(data.pat)) + 1]]

SaveArgs(w, h, num_components, bits_per_component, data) ==
    [w |-> w, h |-> h, num_components |-> num_components,
     bits_per_component |-> bits_per_component, data |-> data]

NoArgs == SaveArgs(0, 0, 0, 0, NullData)

SaveFrameNew ==
    [num_ifds |-> 0, bytes_per_component |-> 0, offset_for_data |-> 0,
     total_data_bytes |-> 0, photometric_interpretation |-> 0]

SaveMachineNew(pc) ==
    [pc |-> pc, fw |-> FileWriterNew, sv |-> SaveFrameNew, ret |-> FALSE]

SaveReturn(s, v) == [s EXCEPT !.pc = "done", !.ret = v, !.fw.open = FALSE]

\* A validation that does not look at the height.
save_valid_any_height(a) ==
    /\ a.w > 0
    /\ (a.bits_per_component = 8 \/ a.bits_per_component = 16
        \/ a.bits_per_component = 32)
    /\ (a.num_components = 1 \/ a.num_components = 3 \/ a.num_components = 4)
    /\ ~a.data.null

\* Lines 210-216.
save_valid(a) ==
    /\ a.w > 0
    /\ a.h > 0
    /\ (a.bits_per_component = 8 \/ a.bits_per_component = 16
        \/ a.bits_per_component = 32)
    /\ (a.num_components = 1 \/ a.num_components = 3 \/ a.num_components = 4)
    /\ ~a.data.null

\* if (!(...)) return false;
save_check(s, a) ==
    IF ~save_valid(a) THEN SaveReturn(s, FALSE)
    ELSE [s EXCEPT !.pc = "save_create"]

\* FileWriter f; if (!f.create(ofilename)) return false;
\* fopen(ofilename, "wb") creates the file or truncates it; can_open is whether
\* the file system lets it.
save_create(s, file, can_open) ==
    IF ~can_open THEN [s |-> SaveReturn(s, FALSE), file |-> file]
    ELSE [s |-> [s EXCEPT !.fw.open = TRUE, !.pc = "save_directory"],
          file |-> FileOf(<<>>)]

\* Lines 222-251: the header, the entry count and the entries.
\* w * h * num_components is an int product (the arguments of the model keep it
\* within int) and the product with bytes_per_component is a uint32_t one.
save_directory(s, file, a) ==
    LET num_ifds == IF a.bits_per_component = 32 THEN 11 ELSE 10
        bytes_per_component == a.bits_per_component \div 8
        offset_for_data == 256
        total_data_bytes ==
            MulU32(MulU32(MulU32(a.w, a.h), a.num_components), bytes_per_component)
        photometric_interpretation == IF a.num_components = 1 THEN 1 ELSE 2
        entries ==
            <<IFDEntryOf(IFD_ImageType, 0),
              IFDEntryOf(IFD_Width, a.w),
              IFDEntryOf(IFD_Height, a.h),
              IFDEntryOf(IFD_BitsPerSample, a.bits_per_component),
              IFDEntryOf(IFD_Compression, 1),
              IFDEntryOf(IFD_PhotometricInterpretation, photometric_interpretation),
              IFDEntryOf(IFD_OffsetForData, offset_for_data),
              IFDEntryOf(IFD_NumComponents, a.num_components)>>
            \o (IF a.bits_per_component = 32
                THEN <<IFDEntryOf(IFD_SampleFormat, 3)>> ELSE <<>>)
            \o <<IFDEntryOf(IFD_RowsPerStrip, a.h),
                 IFDEntryOf(IFD_TotalBytesForData, total_data_bytes)>>
        w0 == FileWriter_writeBytes(s.fw, file, HeaderDefault)
        w1 == FileWriter_writeBytes(w0.fw, w0.file, Mem16(num_ifds))
        RECURSIVE WriteEntries(_, _)
        WriteEntries(wr, k) ==
            IF k > Len(entries) THEN wr
            ELSE WriteEntries(
                     FileWriter_writeBytes(wr.fw, wr.file, IFDEntryMem(entries[k])),
                     k + 1)
        w2 == WriteEntries(w1, 1)
    IN  [s |-> [s EXCEPT !.fw = w2.fw,
                         !.sv = [num_ifds |-> num_ifds,
                                 bytes_per_component |-> bytes_per_component,
                                 offset_for_data |-> offset_for_data,
                                 total_data_bytes |-> total_data_bytes,
                                 photometric_interpretation |->
                                     photometric_interpretation],
                         !.pc = "save_padding"],
         file |-> w2.file]

\* Lines 252-254: num_padding_bytes = offset_for_data - f.bytes_written zero bytes.
save_padding(s, file) ==
    LET num_padding_bytes == s.sv.offset_for_data - s.fw.bytes_written
        wr == FileWriter_writeBytes(s.fw, file, Zeros(num_padding_bytes))
    IN  [s |-> [s EXCEPT !.fw = wr.fw, !.pc = "save_data"], file |-> wr.file]

\* f.writeBytes(data, total_data_bytes); return true;
save_data(s, file, a) ==
    LET wr == FileWriter_writeBytes(s.fw, file,
                                    DataBytes(a.data, s.sv.total_data_bytes))
    IN  [s |-> SaveReturn([s EXCEPT !.fw = wr.fw], TRUE), file |-> wr.file]

-----------------------------------------------------------------------------
(* info, lines 259-290 *)

\* FileReader f; if (!f.open(ifilename)) return false;
info_open(m, file) ==
    IF ~file.exists THEN Return(m, FALSE)
    ELSE [m EXCEPT !.f.open = TRUE, !.pc = "info_header"]

\* Lines 268-275.
info_header(m, file) ==
    LET r == FileReader_readBytes(m.f, file.bytes, HeaderDefault)
        header == r.data
        swap_bytes == Header_mustSwapBytes(header)
        offset_first_ifd ==
            IF swap_bytes THEN swap32(Header_offset_first_ifd(header))
            ELSE Header_offset_first_ifd(header)
        m1 == [m EXCEPT !.f = r.f, !.fr.header = header,
                        !.tr.short = @ \/ ~r.ok]
    IN  IF ~Header_isValid(header) THEN Return(m1, FALSE)
        ELSE [m1 EXCEPT !.fr.swap_bytes = swap_bytes,
                        !.f = FileReader_seek(r.f, offset_first_ifd),
                        !.tr.passed = @ \cup {"header"},
                        !.pc = "info_count"]

\* Lines 277-279 and the first test of the loop; return true after the loop.
info_count(m, file) ==
    LET r == FileReader_readBytes(m.f, file.bytes, Mem16(0))
        n == Val16(r.data)
        num_ifds == IF m.fr.swap_bytes THEN swap16(n) ELSE n
        m1 == [m EXCEPT !.f = r.f, !.fr.num_ifds = num_ifds, !.fr.i = 0,
                        !.tr.short = @ \/ ~r.ok]
    IN  IF num_ifds = 0 THEN Return(m1, TRUE)
        ELSE [m1 EXCEPT !.pc = "info_scan"]

\* One iteration of lines 281-287: the visitor is given
\* (ifd.id, ifd.value, ifd.field_type, ifd.num_items).  As in load, the
\* iterations left once a read obtains no byte are taken at once: each gives
\* the visitor the same fresh entry; cb.eof_visits counts them and cb.visits
\* holds the entry once.
info_entry(m, file) ==
    LET r == FileReader_readBytes(m.f, file.bytes, IFDEntryMem(IFDEntryDefault))
        e == IFDEntryFromMem(r.data)
        ifd == IF m.fr.swap_bytes THEN IFDEntry_swap(e) ELSE e
        n == IF r.n = 0 THEN m.fr.num_ifds - m.fr.i ELSE 1
        i == m.fr.i + n
        f == [r.f EXCEPT !.bytes_read = @ + 12 * (n - 1)]
        m1 == [m EXCEPT !.f = f, !.fr.ifd = ifd, !.fr.i = i,
                        !.tr.short = @ \/ ~r.ok,
                        !.cb.calls = @ + n,
                        !.cb.eof_visits = IF r.n = 0 THEN n ELSE @,
                        !.cb.visits =
                            Append(@, <<ifd.id, ifd.value, ifd.field_type,
                                        ifd.num_items>>)]
    IN  IF i = m.fr.num_ifds THEN Return(m1, TRUE)
        ELSE [m1 EXCEPT !.pc = "info_scan"]

-----------------------------------------------------------------------------
(* Files of other producers: the inputs of load and info.  A file description
   s names a logical image and a directory and BuildFile(s) is the file that
   encodes them in the byte order s.enc, laid out against the structures the
   code reads (Header, IFDEntry): every multi-byte field and every 16- or
   32-bit pixel component in the declared byte order, a short-typed single
   value left-justified in the 4-byte value field.                          *)

Enc16(x, enc) ==
    IF enc = "LE" THEN <<x % 256, x \div 256>> ELSE <<x \div 256, x % 256>>

Enc32(x, enc) ==
    IF enc = "LE" THEN <<B0(x), B1(x), B2(x), B3(x)>>
    ELSE <<B3(x), B2(x), B1(x), B0(x)>>

RECURSIVE Flatten(_)
Flatten(ss) == IF ss = <<>> THEN <<>> ELSE Head(ss) \o Flatten(Tail(ss))

\* A logical directory entry.
Entry(tag, type, count, val) ==
    [tag |-> tag, type |-> type, count |-> count, val |-> val]

EncEntry(e, enc) ==
    Enc16(e.tag, enc) \o Enc16(e.type, enc) \o Enc32(e.count, enc)
    \o (IF e.type = 3 /\ e.count = 1
        THEN Enc16(e.val, enc) \o <<0, 0>>
        ELSE Enc32(e.val, enc))

\* A logical image: its descriptor and its component values, in order.
Component(k, bits) ==
    CASE bits = 8  -> (17 * k + 1) % 256
      [] bits = 16 -> 258 + 257 * k
      [] OTHER     -> 16909060 + 65793 * k

Image(w, h, num_comps, bits_per_comp) ==
    [t  |-> Descriptor(w, h, num_comps, bits_per_comp),
     px |-> [k \in 1..(w * h * num_comps) |-> Component(k, bits_per_comp)]]

EncPixels(img, enc) ==
    Flatten([k \in 1..Len(img.px) |->
                CASE img.t.bits_per_comp = 8  -> <<img.px[k]>>
                  [] img.t.bits_per_comp = 16 -> Enc16(img.px[k], enc)
                  [] OTHER                    -> Enc32(img.px[k], enc)])

DataLen(img) == Len(img.px) * (img.t.bits_per_comp \div 8)

\* Where the parts of a file lie: the directory after the header ("ifd_first")
\* or after the pixel data and the bits-per-sample array ("data_first").
DataOffset(layout, n_entries) ==
    IF layout = "data_first" THEN 8 ELSE 10 + 12 * n_entries

BpsOffset(layout, n_entries, img) == DataOffset(layout, n_entries) + DataLen(img)

IfdOffset(s) ==
    IF s.layout = "data_first" THEN 8 + DataLen(s.img) + 2 * Len(s.bps) ELSE 8

BuildFile(s) ==
    LET data == EncPixels(s.img, s.enc)
        bps == Flatten([k \in 1..Len(s.bps) |-> Enc16(s.bps[k], s.enc)])
        ifd == Enc16(s.declared, s.enc)
               \o Flatten([k \in 1..Len(s.dir) |-> EncEntry(s.dir[k], s.enc)])
        all == s.hdr \o Enc32(IfdOffset(s), s.enc)
               \o (IF s.layout = "data_first" THEN data \o bps \o ifd
                   ELSE ifd \o data \o bps)
    IN  FileOf(SubSeq(all, 1, Len(all) - Min(s.cut, Len(all))))

\* The directory of an image: the tags in ascending order, with short-typed or
\* long-typed values (ft), BitsPerSample inline or as the offset of an array,
\* and optionally one more entry `extra` put before position `at`.
BaseDir(img, layout, ft, indirect, n) ==
    <<Entry(IFD_ImageType, 4, 1, 0),
      Entry(IFD_Width, ft, 1, img.t.w),
      Entry(IFD_Height, ft, 1, img.t.h),
      (IF indirect
       THEN Entry(IFD_BitsPerSample, 3, img.t.num_comps, BpsOffset(layout, n, img))
       ELSE Entry(IFD_BitsPerSample, ft, 1, img.t.bits_per_comp)),
      Entry(IFD_Compression, ft, 1, 1),
      Entry(IFD_PhotometricInterpretation, ft, 1,
            IF img.t.num_comps = 1 THEN 1 ELSE 2),
      Entry(IFD_OffsetForData, 4, 1, DataOffset(layout, n)),
      Entry(IFD_NumComponents, ft, 1, img.t.num_comps),
      Entry(IFD_RowsPerStrip, ft, 1, img.t.h),
      Entry(IFD_TotalBytesForData, 4, 1, DataLen(img))>>

InsertAt(seq, at, x) ==
    SubSeq(seq, 1, at - 1) \o <<x>> \o SubSeq(seq, at, Len(seq))

SwapAt(seq, k) ==
    [j \in 1..Len(seq) |->
        IF j = k THEN seq[k + 1] ELSE IF j = k + 1 THEN seq[k] ELSE seq[j]]

Reverse(seq) == [j \in 1..Len(seq) |-> seq[Len(seq) + 1 - j]]

HdrLE == <<73, 73, 42, 0>>
HdrBE == <<77, 77, 0, 42>>
HdrOf(enc) == IF enc = "LE" THEN HdrLE ELSE HdrBE

FileSpec(hdr, enc, layout, img, dir, bps, declared, cut) ==
    [given |-> TRUE, hdr |-> hdr, enc |-> enc, layout |-> layout, img |-> img,
     dir |-> dir, bps |-> bps, declared |-> declared, cut |-> cut]

\* A well-formed file of an image.
Plain(enc, layout, img, ft, indirect) ==
    LET dir == BaseDir(img, layout, ft, indirect, 10)
    IN  FileSpec(HdrOf(enc), enc, layout, img, dir,
                 IF indirect
                 THEN [k \in 1..img.t.num_comps |-> img.t.bits_per_comp]
                 ELSE <<>>,
                 Len(dir), 0)

\* The file of an image with one more entry in its directory.
WithExtra(enc, layout, img, ft, extra, at) ==
    LET dir == InsertAt(BaseDir(img, layout, ft, FALSE, 11), at, extra)
    IN  FileSpec(HdrOf(enc), enc, layout, img, dir, <<>>, Len(dir), 0)

NoSpec ==
    [given |-> FALSE, hdr |-> HdrLE, enc |-> "LE", layout |-> "ifd_first",
     img |-> Image(1, 1, 1, 8), dir |-> <<>>, bps |-> <<>>, declared |-> 0,
     cut |-> 0]

-----------------------------------------------------------------------------
(* The inputs of the model *)

\* Bounds: the largest width and height given to save, the largest excess of
\* a declared entry count over the entries present, and the largest number of
\* bytes cut from the end of a file.
MaxDim == 2
MaxExcess == 2
MaxCut == 13

Encs == {"LE", "BE"}
Layouts == {"ifd_first", "data_first"}

Images ==
    {Image(1, 1, 1, 8), Image(2, 1, 1, 16), Image(1, 1, 3, 8),
     Image(1, 2, 3, 16), Image(1, 1, 4, 32)}

RemoveTag(dir, tag) == SelectSeq(dir, LAMBDA e : e.tag # tag)

\* The file of an image whose directory holds `entry` (before position at)
\* in place of the entry of the same tag, if it has one.
Replaced(enc, layout, img, ft, entry, at, bps, cut) ==
    LET base == BaseDir(img, layout, ft, FALSE, 10)
        rest == RemoveTag(base, entry.tag)
        n == Len(rest) + 1
        dir == InsertAt(RemoveTag(BaseDir(img, layout, ft, FALSE, n), entry.tag),
                        Min(at, n), entry)
    IN  FileSpec(HdrOf(enc), enc, layout, img, dir, bps, n, cut)

\* The file of an image whose directory lacks the entry at position k.
Without(enc, layout, img, ft, k) ==
    LET base == BaseDir(img, layout, ft, FALSE, 9)
        dir == SubSeq(base, 1, k - 1) \o SubSeq(base, k + 1, Len(base))
    IN  FileSpec(HdrOf(enc), enc, layout, img, dir, <<>>, Len(dir), 0)

PlainFiles ==
    {Plain(enc, layout, img, ft, indirect) :
        enc \in Encs, layout \in Layouts, ft \in {3, 4},
        indirect \in BOOLEAN,
        img \in {i \in Images : i.t.num_comps >= 3}}
    \cup
    {Plain(enc, layout, img, ft, FALSE) :
        enc \in Encs, layout \in Layouts, ft \in {3, 4},
        img \in {i \in Images : i.t.num_comps < 3}}

Extras ==
    {Entry(IFD_Compression, 3, 1, 5), Entry(IFD_Compression, 4, 1, 1),
     Entry(IFD_PlanarConfiguration, 3, 1, 2), Entry(IFD_PlanarConfiguration, 3, 1, 1),
     Entry(IFD_PhotometricInterpretation, 3, 1, 3),
     Entry(IFD_PhotometricInterpretation, 3, 1, 0),
     Entry(IFD_ImageType, 4, 1, 1),
     Entry(IFD_FillOrder, 3, 1, 1), Entry(IFD_FillOrder, 3, 1, 2),
     Entry(IFD_Orientation, 3, 1, 1), Entry(IFD_SampleFormat, 3, 1, 1),
     Entry(IFD_SampleFormat, 3, 3, 134), Entry(IFD_Compression, 4, 1, 32773),
     Entry(39321, 4, 1, 7)}

ExtraFiles ==
    {Replaced(enc, "ifd_first", img, 3, x, at, <<>>, 0) :
        enc \in Encs, img \in {Image(2, 1, 1, 16), Image(1, 1, 3, 8)},
        x \in Extras, at \in {1, 6, 11}}
    \cup
    {Replaced(enc, "data_first", Image(1, 1, 4, 32), 3, x, 11, <<>>, 0) :
        enc \in Encs, x \in {Entry(IFD_FillOrder, 3, 1, 1),
                             Entry(IFD_PlanarConfiguration, 3, 1, 2)}}

\* Directories in another order: two neighbours exchanged, or all reversed.
Reordered(s, k) ==
    [s EXCEPT !.dir = IF k = 0 THEN Reverse(s.dir) ELSE SwapAt(s.dir, k)]

OrderFiles ==
    {Reordered(Plain(enc, "ifd_first", img, 3, FALSE), k) :
        enc \in Encs, img \in {Image(2, 1, 1, 16), Image(1, 2, 3, 16)},
        k \in 0..9}

\* Every header of four bytes drawn from the bytes the two canonical headers
\* are made of, before a well-formed body in the byte order the code would
\* take the header to declare.
HeaderBytes == {0, 42, 73, 77}

HeaderFiles ==
    {[Plain(IF b4 = 42 THEN "BE" ELSE "LE", "ifd_first", Image(1, 1, 1, 8), 3, FALSE)
        EXCEPT !.hdr = <<b1, b2, b3, b4>>] :
        b1 \in HeaderBytes, b2 \in HeaderBytes, b3 \in HeaderBytes,
        b4 \in HeaderBytes}

\* The first `keep` bytes of a file.
Prefix(s, keep) == [s EXCEPT !.cut = Len(BuildFile(s).bytes) - keep]

ShortFiles ==
    {Prefix(Plain(enc, "ifd_first", Image(1, 1, 1, 8), 3, FALSE), keep) :
        enc \in Encs, keep \in 0..10}

\* A declared entry count that differs from the number of entries present, and
\* files that lost their last bytes.
CountFiles ==
    {[Plain(enc, layout, Image(2, 1, 1, 16), 3, FALSE) EXCEPT !.declared = @ + d] :
        enc \in Encs, layout \in Layouts, d \in (-1..MaxExcess) \ {0}}

CutFiles ==
    {[Plain(enc, layout, Image(2, 1, 1, 16), 3, FALSE) EXCEPT !.cut = c] :
        enc \in Encs, layout \in Layouts, c \in {1, 2, 11, 12, MaxCut}}

\* BitsPerSample entries of every kind: values that are no supported depth,
\* and offsets of a 2-byte value that is supported, unsupported, cut or absent.
BpsFiles ==
    {Replaced(enc, layout, Image(1, 1, 3, 8), 3,
              Entry(IFD_BitsPerSample, 3, 1, v), 4, <<>>, 0) :
        enc \in Encs, layout \in Layouts, v \in {0, 4, 7, 24, 64, 1000}}
    \cup
    {Replaced(enc, layout, Image(1, 1, 3, 8), 3,
              Entry(IFD_BitsPerSample, 3, 3,
                    BpsOffset(layout, 10, Image(1, 1, 3, 8))), 4, bps, 0) :
        enc \in Encs, layout \in Layouts,
        bps \in {<<16, 16, 16>>, <<32, 32, 32>>, <<7, 7, 7>>,
                 <<2048, 2048, 2048>>, <<0, 0, 0>>}}
    \cup
    {Replaced(enc, "ifd_first", Image(1, 1, 3, 8), 3,
              Entry(IFD_BitsPerSample, 3, 3,
                    BpsOffset("ifd_first", 10, Image(1, 1, 3, 8))), 4, <<8>>, c) :
        enc \in Encs, c \in 1..2}

MissingFiles ==
    {Without(enc, "ifd_first", img, 3, k) :
        enc \in Encs, img \in {Image(1, 1, 3, 8)}, k \in 1..10}

\* Captured fields outside what an image can have: a width or height with the
\* top bit set, a component count of 2, a byte total that is not the image's.
FieldFiles ==
    {Replaced(enc, "ifd_first", Image(1, 1, 3, 8), 3, x, 11, <<>>, 0) :
        enc \in Encs,
        x \in {Entry(IFD_Width, 4, 1, -2147483647),
               Entry(IFD_Height, 4, 1, -2147483647),
               Entry(IFD_NumComponents, 3, 1, 2),
               Entry(IFD_TotalBytesForData, 4, 1, 99)}}

ForeignFiles ==
    PlainFiles \cup ExtraFiles \cup OrderFiles \cup HeaderFiles \cup ShortFiles
    \cup CountFiles \cup CutFiles \cup BpsFiles \cup MissingFiles
    \cup FieldFiles

\* What the output path holds before the first save: nothing, or an old file.
OldFiles == {NoFile, FileOf(<<1, 2, 3>>)}

\* The arguments of save: every supported tuple up to MaxDim x MaxDim, with two
\* pixel buffers; one tuple of 4 GiB of pixel data; and tuples outside the
\* supported set.
Buffers == {DataOf(<<1, 2, 3, 4, 5, 6, 7>>), DataOf(<<255, 0, 128>>)}

ValidSaveArgs ==
    {SaveArgs(w, h, c, b, d) :
        w \in 1..MaxDim, h \in 1..MaxDim, c \in {1, 3, 4}, b \in {8, 16, 32},
        d \in Buffers}
    \cup {SaveArgs(32768, 8192, 4, 32, DataOf(<<1, 2, 3, 4, 5, 6, 7>>))}

InvalidSaveArgs ==
    {SaveArgs(w, 1, 3, 16, DataOf(<<9>>)) : w \in {0, -1}}
    \cup {SaveArgs(2, h, 1, 8, DataOf(<<9>>)) : h \in {0, -1}}
    \cup {SaveArgs(1, 2, c, 8, DataOf(<<9>>)) : c \in {0, 2, 5, -1}}
    \cup {SaveArgs(2, 2, 4, b, DataOf(<<9>>)) : b \in {0, 1, 4, 24, 64, -8}}
    \cup {SaveArgs(1, 1, 1, 8, NullData), SaveArgs(2, 2, 3, 32, NullData),
          SaveArgs(0, 0, 0, 0, NullData)}

UninitShorts == {8, 2048, 4660}

\* The objects given to IFDEntry::swap, swap16 and swap32: entries as read
\* from a file of either byte order (ids, field types and item counts in
\* host and in reversed order, values of every shape), every uint16_t, and
\* the uint32_t made of the bytes 00, 01, 7F, 80, FF.
MaxSwaps == 2

SwapObject(kind, x) == [kind |-> kind, from |-> x, prev |-> x, cur |-> x, n |-> 0]

SwapNone == SwapObject("none", 0)

SwapEntries ==
    {[id |-> i, field_type |-> t, num_items |-> c, value |-> v] :
        i \in {0, 1, 256, 258, 513, 339, 21249},
        t \in {3, 4, 768, 1024},
        c \in {1, 3, 16777216, 50331648},
        v \in {0, 8, 2048, 8192, 134, 305419896, -2046820352, -1, 2097152}}

SwapInputs ==
    {SwapObject("entry", e) : e \in SwapEntries}
    \cup {SwapObject("u16", x) : x \in 0..65535}
    \cup {SwapObject("u32", Mk32(b0, b1, b2, b3)) :
             b0 \in {0, 1, 127, 128, 255}, b1 \in {0, 1, 127, 128, 255},
             b2 \in {0, 1, 127, 128, 255}, b3 \in {0, 1, 127, 128, 255}}

-----------------------------------------------------------------------------
(* The state *)

VARIABLES
    disk,   \* the file at the path the calls name: NoFile or FileOf(bytes)
    path,   \* "input": a file of another producer; "output": the path save writes
    fspec,  \* the description the input file was built from (NoSpec otherwise)
    saved,  \* the arguments of the save that wrote disk, when one did
    op,     \* the call in progress: its name, load's consumer, save's arguments
    pc,     \* where the call is: "idle", a step of the call, or "done"
    f,      \* the call's FileReader
    fr,     \* the locals of load and info
    cb,     \* what the consumer or the visitor was given and did
    ret,    \* the value the call returned (at "done")
    tr,     \* what the call did so far (history)
    fw,     \* save's FileWriter
    sv,     \* the locals of save
    sw      \* an object under IFDEntry::swap, swap16 or swap32 (SwapSpec)

vars == <<disk, path, fspec, saved, op, pc, f, fr, cb, ret, tr, fw, sv, sw>>

NoOp == [name |-> "none", cons |-> Probe, args |-> NoArgs]
NotSaved == [valid |-> FALSE, args |-> NoArgs]

\* The machine of the call in progress, and the state after a step to n.
Cur == [pc |-> pc, f |-> f, fr |-> fr, cb |-> cb, ret |-> ret, tr |-> tr]

Becomes(n) ==
    /\ pc' = n.pc /\ f' = n.f /\ fr' = n.fr /\ cb' = n.cb /\ ret' = n.ret
    /\ tr' = n.tr

CurSave == [pc |-> pc, fw |-> fw, sv |-> sv, ret |-> ret]

SaveBecomes(n) == pc' = n.pc /\ fw' = n.fw /\ sv' = n.sv /\ ret' = n.ret

Init ==
    /\ \/ /\ path = "input"
          /\ fspec \in ForeignFiles
          /\ disk = BuildFile(fspec)
       \/ /\ path = "output"
          /\ fspec = NoSpec
          /\ disk \in OldFiles
    /\ saved = NotSaved
    /\ op = NoOp
    /\ pc = "idle"
    /\ f = FileReaderNew
    /\ fr = LoadFrameNew
    /\ cb = CallbackNew
    /\ ret = FALSE
    /\ tr = TraceNew
    /\ fw = FileWriterNew
    /\ sv = SaveFrameNew
    /\ sw = SwapNone

\* The descriptor a caller expects of the file: the image the input encodes,
\* or what was saved.
Expected ==
    IF fspec.given THEN fspec.img.t
    ELSE Descriptor(saved.args.w, saved.args.h, saved.args.num_components,
                    saved.args.bits_per_component)

Consumers == {Probe, ReaderOf(Expected)}

-----------------------------------------------------------------------------
(* The calls *)

CallLoad ==
    /\ pc = "idle"
    /\ \E cons \in Consumers : op' = [name |-> "load", cons |-> cons, args |-> NoArgs]
    /\ pc' = "load_open"
    /\ UNCHANGED <<disk, path, fspec, saved, f, fr, cb, ret, tr, fw, sv, sw>>

CallInfo ==
    /\ pc = "idle"
    /\ op' = [name |-> "info", cons |-> Probe, args |-> NoArgs]
    /\ pc' = "info_open"
    /\ UNCHANGED <<disk, path, fspec, saved, f, fr, cb, ret, tr, fw, sv, sw>>

\* The callers write to a path of their own (sample.cpp, line 68).
CallSave ==
    /\ pc = "idle"
    /\ path = "output"
    /\ \E a \in ValidSaveArgs \cup InvalidSaveArgs :
          op' = [name |-> "save", cons |-> Probe, args |-> a]
    /\ pc' = "save_check"
    /\ UNCHANGED <<disk, path, fspec, saved, f, fr, cb, ret, tr, fw, sv, sw>>

\* The caller has the result: the call's objects are gone.
Finish ==
    /\ pc = "done"
    /\ pc' = "idle"
    /\ op' = NoOp
    /\ f' = FileReaderNew /\ fr' = LoadFrameNew /\ cb' = CallbackNew
    /\ ret' = FALSE /\ tr' = TraceNew /\ fw' = FileWriterNew /\ sv' = SaveFrameNew
    /\ UNCHANGED <<disk, path, fspec, saved, sw>>

LoadFrame == UNCHANGED <<disk, path, fspec, saved, op, fw, sv, sw>>

LoadOpen == pc = "load_open" /\ Becomes(load_open(Cur, disk)) /\ LoadFrame
LoadHeader == pc = "load_header" /\ Becomes(load_header(Cur, disk)) /\ LoadFrame
LoadCount == pc = "load_count" /\ Becomes(load_count(Cur, disk)) /\ LoadFrame
LoadEntry == pc = "load_scan" /\ Becomes(load_entry(Cur, disk)) /\ LoadFrame
LoadCheck == pc = "load_check" /\ Becomes(load_check(Cur)) /\ LoadFrame
LoadBits ==
    /\ pc = "load_bits"
    /\ \E uninit \in UninitShorts : Becomes(load_bits(Cur, disk, uninit))
    /\ LoadFrame
LoadSeek == pc = "load_seek" /\ Becomes(load_seek(Cur)) /\ LoadFrame
LoadConsumer ==
    pc = "load_consumer" /\ Becomes(load_consumer(Cur, disk, op.cons)) /\ LoadFrame

InfoOpen == pc = "info_open" /\ Becomes(info_open(Cur, disk)) /\ LoadFrame
InfoHeader == pc = "info_header" /\ Becomes(info_header(Cur, disk)) /\ LoadFrame
InfoCount == pc = "info_count" /\ Becomes(info_count(Cur, disk)) /\ LoadFrame
InfoEntry == pc = "info_scan" /\ Becomes(info_entry(Cur, disk)) /\ LoadFrame

SaveFrame == UNCHANGED <<path, fspec, op, f, fr, cb, tr, sw>>

SaveCheck ==
    /\ pc = "save_check"
    /\ SaveBecomes(save_check(CurSave, op.args))
    /\ UNCHANGED <<disk, saved>>
    /\ SaveFrame

SaveCreate ==
    /\ pc = "save_create"
    /\ \E can_open \in BOOLEAN :
          LET n == save_create(CurSave, disk, can_open)
          IN  /\ SaveBecomes(n.s)
              /\ disk' = n.file
              /\ saved' = IF can_open THEN NotSaved ELSE saved
    /\ SaveFrame

SaveDirectory ==
    /\ pc = "save_directory"
    /\ LET n == save_directory(CurSave, disk, op.args)
       IN  SaveBecomes(n.s) /\ disk' = n.file
    /\ UNCHANGED saved
    /\ SaveFrame

SavePadding ==
    /\ pc = "save_padding"
    /\ LET n == save_padding(CurSave, disk)
       IN  SaveBecomes(n.s) /\ disk' = n.file
    /\ UNCHANGED saved
    /\ SaveFrame

SaveData ==
    /\ pc = "save_data"
    /\ LET n == save_data(CurSave, disk, op.args)
       IN  SaveBecomes(n.s) /\ disk' = n.file
    /\ saved' = [valid |-> TRUE, args |-> op.args]
    /\ SaveFrame

Next ==
    \/ CallLoad \/ CallInfo \/ CallSave \/ Finish
    \/ LoadOpen \/ LoadHeader \/ LoadCount \/ LoadEntry \/ LoadCheck
    \/ LoadBits \/ LoadSeek \/ LoadConsumer
    \/ InfoOpen \/ InfoHeader \/ InfoCount \/ InfoEntry
    \/ SaveCheck \/ SaveCreate \/ SaveDirectory \/ SavePadding \/ SaveData

Spec == Init /\ [][Next]_vars

-----------------------------------------------------------------------------
(* The byte swaps on their own: an object is drawn and swapped repeatedly *)

SwapInit ==
    /\ path = "output" /\ fspec = NoSpec /\ disk = NoFile
    /\ saved = NotSaved
    /\ op = [name |-> "swap", cons |-> Probe, args |-> NoArgs]
    /\ pc = "swap"
    /\ f = FileReaderNew /\ fr = LoadFrameNew /\ cb = CallbackNew
    /\ ret = FALSE /\ tr = TraceNew /\ fw = FileWriterNew /\ sv = SaveFrameNew
    /\ sw \in SwapInputs

SwapFrame ==
    UNCHANGED <<disk, path, fspec, saved, op, pc, f, fr, cb, ret, tr, fw, sv>>

Swapped(x) == [sw EXCEPT !.prev = sw.cur, !.cur = x, !.n = @ + 1]

\* ifd.swap();
SwapEntry ==
    /\ sw.kind = "entry" /\ sw.n < MaxSwaps
    /\ sw' = Swapped(IFDEntry_swap(sw.cur))
    /\ SwapFrame

\* x = IFDEntry::swap16(x);
Swap16 ==
    /\ sw.kind = "u16" /\ sw.n < MaxSwaps
    /\ sw' = Swapped(swap16(sw.cur))
    /\ SwapFrame

\* x = IFDEntry::swap32(x);
Swap32 ==
    /\ sw.kind = "u32" /\ sw.n < MaxSwaps
    /\ sw' = Swapped(swap32(sw.cur))
    /\ SwapFrame

SwapNext == SwapEntry \/ Swap16 \/ Swap32

SwapSpec == SwapInit /\ [][SwapNext]_vars

-----------------------------------------------------------------------------
(* What the claims speak of *)

\* The first four bytes of the file (fewer when it is shorter).
First4 == SubSeq(disk.bytes, 1, Min(4, Len(disk.bytes)))

CanonicalHeader == disk.exists /\ First4 \in {HdrLE, HdrBE}

\* The input is a file whose directory is whole: a canonical header, as many
\* entries as declared, nothing cut.
WellFormed(s) ==
    s.given /\ s.hdr = HdrOf(s.enc) /\ s.declared = Len(s.dir) /\ s.cut = 0

\* A well-formed input whose BitsPerSample entries say what the image is.
Faithful(s) ==
    /\ WellFormed(s)
    /\ \A k \in 1..Len(s.dir) :
          s.dir[k].tag = IFD_BitsPerSample =>
              \/ s.dir[k].count = 1 /\ s.dir[k].val = s.img.t.bits_per_comp
              \/ /\ s.dir[k].count = s.img.t.num_comps
                 /\ Len(s.bps) = s.img.t.num_comps
                 /\ \A j \in 1..Len(s.bps) : s.bps[j] = s.img.t.bits_per_comp

\* What a run of load gave its caller.
Outcome(m) ==
    <<m.ret, m.cb.calls, m.cb.w, m.cb.h, m.cb.num_components,
      m.cb.bits_per_component>>

\* The host-order component values held by a buffer the consumer filled.
HostValues(data, bits) ==
    LET unit == bits \div 8
    IN  [k \in 1..(Len(data) \div unit) |->
            CASE unit = 1 -> data[k]
              [] unit = 2 -> Val16(SubSeq(data, 2 * k - 1, 2 * k))
              [] OTHER    -> Val32(SubSeq(data, 4 * k - 3, 4 * k))]

AllStages == {"header", "scan", "check", "bits"}

-----------------------------------------------------------------------------
(* C1 *)

SavedDescriptor ==
    Descriptor(saved.args.w, saved.args.h, saved.args.num_components,
               saved.args.bits_per_component)

\* C1: round trip.  When load returns from a file that save wrote from valid
\* arguments, it returns true, the consumer was called with the width, height,
\* componentCount and bitsPerComponent that were saved, and the bytes a
\* consumer read through the reader are the bytes of the saved buffer.
C1_RoundTrip ==
    (pc = "done" /\ op.name = "load" /\ saved.valid) =>
        /\ ret = TRUE
        /\ cb.calls = 1
        /\ Descriptor(cb.w, cb.h, cb.num_components, cb.bits_per_component)
               = SavedDescriptor
        /\ (op.cons.kind = "reader" =>
                cb.data = DataBytes(saved.args.data,
                                    (saved.args.w * saved.args.h
                                     * saved.args.num_components
                                     * saved.args.bits_per_component) \div 8))

\* The part of C1 the code keeps: the same, for arguments whose pixel data
\* are fewer than 2^32 bytes.
C1_RoundTripBelow4GiB ==
    (pc = "done" /\ op.name = "load" /\ saved.valid
     /\ saved.args.w <= MaxDim /\ saved.args.h <= MaxDim) =>
        C1_RoundTrip

-----------------------------------------------------------------------------
(* C2 *)

\* The supported arguments, as the claim lists them.
C2_Supported(a) ==
    /\ a.w > 0 /\ a.h > 0
    /\ a.bits_per_component \in {8, 16, 32}
    /\ a.num_components \in {1, 3, 4}
    /\ ~a.data.null

\* C2: a call of save with an unsupported argument (width <= 0, height <= 0,
\* bitsPerComponent outside {8,16,32}, componentCount outside {1,3,4}, or a
\* null pixel pointer) returns false at its first step, and no step of it
\* opens, creates, truncates or writes the output file.
C2_SaveRejected ==
    [][(op.name = "save" /\ ~C2_Supported(op.args)) =>
          /\ disk' = disk
          /\ ~fw'.open /\ fw'.bytes_written = 0
          /\ pc \in {"save_check", "done"}
          /\ (pc = "save_check" => pc' = "done" /\ ret' = FALSE)]_vars

C2_Witness ==
    /\ pc = "done" /\ op.name = "save" /\ op.args.h <= 0 /\ ret = FALSE
    /\ disk = FileOf(<<1, 2, 3>>)

-----------------------------------------------------------------------------
(* C3 *)

\* C3: load returns false, the consumer never called, for every file whose
\* first 4 bytes are neither 49 49 2A 00 nor 4D 4D 00 2A (shorter files
\* included); for a header read whole, isValid is true exactly for those two
\* and, among them, mustSwapBytes exactly for the big-endian one.
C3_HeaderRejected ==
    /\ (op.name = "load" /\ disk.exists /\ ~CanonicalHeader) =>
          /\ cb.calls = 0
          /\ pc \notin {"load_seek", "load_consumer"}
          /\ (pc = "done" => ret = FALSE)
    /\ (disk.exists /\ Len(disk.bytes) >= 8) =>
          LET hd == SubSeq(disk.bytes, 1, 8)
          IN  /\ Header_isValid(hd) <=> First4 \in {HdrLE, HdrBE}
              /\ Header_isValid(hd) => (Header_mustSwapBytes(hd) <=> First4 = HdrBE)
              /\ (op.name = "load" /\ pc \notin {"load_open", "load_header"}) =>
                    /\ fr.header = hd
                    /\ "header" \in tr.passed <=> First4 \in {HdrLE, HdrBE}
                    /\ "header" \in tr.passed => (fr.swap_bytes <=> First4 = HdrBE)

C3_Witness ==
    /\ pc = "done" /\ op.name = "load" /\ ret = FALSE /\ cb.calls = 0
    /\ First4 = <<73, 77, 42, 0>>

-----------------------------------------------------------------------------
(* C4 *)

\* The same logical content in the other byte order.
Twin(s) ==
    [s EXCEPT !.enc = IF s.enc = "LE" THEN "BE" ELSE "LE",
              !.hdr = IF s.enc = "LE" THEN HdrBE ELSE HdrLE]

\* C4: endianness transparency.  When load returns from a well-formed file
\* all of whose reads were whole, a load of the file that encodes the same image in the other byte order
\* returns the same result, gives the consumer the same width, height,
\* componentCount and bitsPerComponent, and the pixel values the consumer
\* reads are the same host-order values.
C4_EndianTransparent ==
    (pc = "done" /\ op.name = "load" /\ Faithful(fspec) /\ ~tr.short) =>
        LET twin == load(BuildFile(Twin(fspec)), op.cons, 8)
        IN  /\ ~twin.tr.short
            /\ Outcome(twin) = Outcome(Cur)
            /\ HostValues(twin.cb.data, fspec.img.t.bits_per_comp)
                   = HostValues(cb.data, fspec.img.t.bits_per_comp)

-----------------------------------------------------------------------------
(* C5 *)

\* C5: in every call of load the consumer is called at most once; it has been
\* called only when the call passed the header check, the whole directory
\* scan, the required-field check and the bits-per-component resolution, and
\* then load returns what the consumer returned; a call that ends at any
\* earlier return ends with false and the consumer not called.
C5_ConsumerOnce ==
    op.name = "load" =>
        /\ cb.calls <= 1
        /\ cb.calls = 1 =>
              /\ pc = "done" /\ ret = cb.result
              /\ tr.passed = AllStages
              /\ Header_isValid(fr.header)
              /\ fr.i = fr.num_ifds
              /\ fr.w # 0 /\ fr.h # 0 /\ fr.total_data_bytes # 0
              /\ fr.offset_for_data # -1
              /\ fr.bits_per_component \in {8, 16, 32}
              /\ Descriptor(cb.w, cb.h, cb.num_components, cb.bits_per_component)
                     = Descriptor(fr.w, fr.h, fr.num_components,
                                  fr.bits_per_component)
        /\ (pc = "done" /\ cb.calls = 0) => ret = FALSE
        /\ (pc = "done" /\ tr.passed # AllStages) => cb.calls = 0

C5_Witness ==
    /\ pc = "done" /\ op.name = "load" /\ op.cons.kind = "reader"
    /\ cb.calls = 1 /\ cb.result = FALSE /\ ret = FALSE

-----------------------------------------------------------------------------
(* C6 *)

Unsupported(e) ==
    \/ e.tag = IFD_Compression /\ e.val # 1
    \/ e.tag = IFD_PlanarConfiguration /\ e.val # 1
    \/ e.tag = IFD_PhotometricInterpretation /\ e.val \notin {1, 2}
    \/ e.tag = IFD_ImageType /\ e.val # 0

HasUnsupported(s) == \E k \in 1..Len(s.dir) : Unsupported(s.dir[k])

\* C6: load of a file whose directory holds, at any position, a Compression
\* entry other than 1, a PlanarConfiguration entry other than 1, a
\* PhotometricInterpretation entry other than 1 or 2, or an ImageType entry
\* other than 0, returns false and never calls the consumer.
C6_UnsupportedRejected ==
    (op.name = "load" /\ WellFormed(fspec) /\ HasUnsupported(fspec)) =>
        /\ cb.calls = 0
        /\ pc \notin {"load_check", "load_bits", "load_seek", "load_consumer"}
        /\ (pc = "done" => ret = FALSE)

C6_Witness ==
    /\ pc = "done" /\ op.name = "load" /\ WellFormed(fspec)
    /\ fspec.enc = "BE"
    /\ fspec.dir[Len(fspec.dir)] = Entry(IFD_PlanarConfiguration, 3, 1, 2)
    /\ ret = FALSE /\ cb.calls = 0

-----------------------------------------------------------------------------
(* C7 *)

\* The 2-byte unsigned value at an offset of the file, in the file's order.
Dec16At(bytes, offset, big) ==
    IF big THEN 256 * bytes[offset + 1] + bytes[offset + 2]
    ELSE bytes[offset + 1] + 256 * bytes[offset + 2]

\* C7: the step that resolves the bits per component, when the value captured
\* from the BitsPerSample entry is 8, 16 or 32, keeps it and reads nothing;
\* otherwise it makes one read, and when the two bytes at that offset of the
\* file are there, the value they hold (in the file's byte order) becomes the
\* bits per component if it is 8, 16 or 32 and else load returns false, the
\* consumer not called.  The resolved value is what the consumer is given.
C7_IndirectBits ==
    /\ [][(op.name = "load" /\ pc = "load_bits") =>
            LET v == fr.bits_per_component
            IN  IF v \in {8, 16, 32}
                THEN /\ pc' = "load_seek" /\ fr' = fr /\ f' = f
                     /\ tr'.indirect = tr.indirect
                ELSE /\ tr'.indirect = tr.indirect + 1
                     /\ (v >= 0 /\ v + 2 <= Len(disk.bytes)) =>
                           LET x == Dec16At(disk.bytes, v, First4 = HdrBE)
                           IN  IF x \in {8, 16, 32}
                               THEN /\ pc' = "load_seek"
                                    /\ fr'.bits_per_component = x
                               ELSE /\ pc' = "done" /\ ret' = FALSE
                                    /\ cb'.calls = 0]_vars
    /\ [][(op.name = "load" /\ pc \in {"load_seek", "load_consumer"}) =>
            /\ fr'.bits_per_component = fr.bits_per_component
            /\ cb'.calls = 1 =>
                  cb'.bits_per_component = fr.bits_per_component]_vars

C7_Witness ==
    /\ pc = "done" /\ op.name = "load" /\ fspec.given /\ fspec.enc = "BE"
    /\ fspec.bps = <<16, 16, 16>>
    /\ tr.indirect = 1 /\ cb.calls = 1 /\ cb.bits_per_component = 16

-----------------------------------------------------------------------------
(* C8 *)

Exchanged(seq, i, j) ==
    [k \in 1..Len(seq) |->
        IF k = i THEN seq[j] ELSE IF k = j THEN seq[i] ELSE seq[k]]

\* C8: directory order is irrelevant.  When load returns from a well-formed
\* file, a load of the file with any two entries of its directory exchanged
\* returns the same result and gives the consumer the same arguments.
C8_OrderIrrelevant ==
    (pc = "done" /\ op.name = "load" /\ Faithful(fspec) /\ ~tr.short) =>
        \A i, j \in 1..Len(fspec.dir) :
            i < j =>
                Outcome(load(BuildFile([fspec EXCEPT
                                           !.dir = Exchanged(fspec.dir, i, j)]),
                             op.cons, 8))
                    = Outcome(Cur)

-----------------------------------------------------------------------------
(* C9 *)

\* C9: info returns false only when the file cannot be opened or its header
\* is not one of the two valid ones, and then the visitor was not called; for
\* a well-formed file it returns true after calling the visitor once per
\* directory entry, in file order, as many times as the declared count, each
\* time with the entry's tag id, value, field type and item count.
C9_InfoEnumerates ==
    (pc = "done" /\ op.name = "info") =>
        /\ ret = FALSE => (cb.calls = 0 /\ ~CanonicalHeader)
        /\ WellFormed(fspec) =>
              /\ ret = TRUE
              /\ cb.calls = fspec.declared
              /\ cb.visits =
                    [k \in 1..Len(fspec.dir) |->
                        <<fspec.dir[k].tag, fspec.dir[k].val,
                          fspec.dir[k].type, fspec.dir[k].count>>]

-----------------------------------------------------------------------------
(* C10 *)

\* The offset of the directory, from the header's bytes.
DirOffset ==
    IF First4 = HdrBE
    THEN Val32(<<disk.bytes[8], disk.bytes[7], disk.bytes[6], disk.bytes[5]>>)
    ELSE Val32(SubSeq(disk.bytes, 5, 8))

\* The entries the file holds whole after the entry count.
WholeEntries ==
    IF Len(disk.bytes) < 8 \/ DirOffset < 0 \/ DirOffset + 2 > Len(disk.bytes)
    THEN 0
    ELSE (Len(disk.bytes) - DirOffset - 2) \div 12

\* C10: a call of load in which a read obtained fewer bytes than it asked for
\* returns false and has not called the consumer; a call of info gives the
\* visitor nothing but entries it read whole.
C10_ShortReadFails ==
    /\ (op.name = "load" /\ tr.short) =>
          /\ cb.calls = 0
          /\ (pc = "done" => ret = FALSE)
    /\ (op.name = "info" /\ disk.exists) => cb.calls <= WholeEntries

-----------------------------------------------------------------------------
(* C11 *)

\* The directory a save of arguments a is to write, but for its last entry.
C11_Entries(a) ==
    <<Entry(IFD_ImageType, 4, 1, 0),
      Entry(IFD_Width, 4, 1, a.w),
      Entry(IFD_Height, 4, 1, a.h),
      Entry(IFD_BitsPerSample, 4, 1, a.bits_per_component),
      Entry(IFD_Compression, 4, 1, 1),
      Entry(IFD_PhotometricInterpretation, 4, 1,
            IF a.num_components = 1 THEN 1 ELSE 2),
      Entry(IFD_OffsetForData, 4, 1, 256),
      Entry(IFD_NumComponents, 4, 1, a.num_components)>>
    \o (IF a.bits_per_component = 32
        THEN <<Entry(IFD_SampleFormat, 4, 1, 3)>> ELSE <<>>)
    \o <<Entry(IFD_RowsPerStrip, 4, 1, a.h)>>

\* The bytes before the value of the last entry: header, count, entries, and
\* the tag, type and item count of TotalBytesForData.
C11_Head(a) ==
    LET es == C11_Entries(a)
    IN  HdrLE \o Enc32(8, "LE")
        \o Enc16(Len(es) + 1, "LE")
        \o Flatten([k \in 1..Len(es) |-> EncEntry(es[k], "LE")])
        \o Enc16(IFD_TotalBytesForData, "LE") \o Enc16(4, "LE") \o Enc32(1, "LE")

\* C11: the byte stream of a save that returned true is the canonical
\* little-endian header with directory offset 8, the entry count (10, or 11
\* for 32 bits), that many 12-byte entries in the fixed order, zero bytes up
\* to offset 256 (the directory ends before it), and from offset 256 on the
\* pixel bytes of the buffer, all width*height*componentCount*bits/8 of them.
C11_SaveStream ==
    /\ (op.name = "save" /\ pc = "save_padding") =>
          /\ fw.bytes_written = 10 + 12 * sv.num_ifds
          /\ fw.bytes_written <= 256
    /\ (op.name = "save" /\ pc = "done" /\ ret = TRUE) =>
          LET a == op.args
              head == C11_Head(a)
              bytes_per == a.bits_per_component \div 8
              n == Len(disk.bytes) - 256
          IN  /\ Len(head) = 10 + 12 * (Len(C11_Entries(a)) + 1) - 4
              /\ Len(C11_Entries(a)) + 1
                     = (IF a.bits_per_component = 32 THEN 11 ELSE 10)
              /\ Len(disk.bytes) >= 256
              /\ SubSeq(disk.bytes, 1, Len(head)) = head
              /\ \A k \in (Len(head) + 5)..256 : disk.bytes[k] = 0
              /\ n % bytes_per = 0
              /\ n \div bytes_per = a.w * a.h * a.num_components
              /\ \A k \in 1..n :
                    disk.bytes[256 + k]
                        = a.data.pat[((k - 1) % Len(a.data.pat)) + 1]

\* The part of C11 the code keeps: the same, for arguments whose pixel data
\* are fewer than 2^32 bytes.
C11_SaveStreamBelow4GiB ==
    (op.name = "save" /\ op.args.w <= MaxDim /\ op.args.h <= MaxDim) =>
        C11_SaveStream

-----------------------------------------------------------------------------
(* C12 *)

\* C12: whenever load has called the consumer, the descriptor it was given
\* has width > 0, height > 0, componentCount in {1,3,4} and bitsPerComponent
\* in {8,16,32}, and the TotalBytesForData value of the directory is
\* width*height*componentCount*bitsPerComponent/8.
C12_DescriptorInvariants ==
    (op.name = "load" /\ cb.calls = 1) =>
        /\ cb.w > 0
        /\ cb.h > 0
        /\ cb.num_components \in {1, 3, 4}
        /\ cb.bits_per_component \in {8, 16, 32}
        /\ fr.total_data_bytes
               = (cb.w * cb.h * cb.num_components * cb.bits_per_component) \div 8

-----------------------------------------------------------------------------
(* C13 *)

\* The value field of the last entry of the directory save wrote.
C13_TotalBytesWritten ==
    LET at == 10 + 12 * (sv.num_ifds - 1) + 8
    IN  Val32(SubSeq(disk.bytes, at + 1, at + 4))

\* x is width*height*componentCount*bitsPerComponent/8 for the arguments a.
\* The count of components fits an int for the arguments of the model, the
\* count of bytes need not: the two are compared after dividing x.
C13_IsByteCount(x, a) ==
    LET bytes_per == a.bits_per_component \div 8
    IN  /\ x >= 0
        /\ x % bytes_per = 0
        /\ x \div bytes_per = a.w * a.h * a.num_components

\* C13: when save has returned true, the value of the TotalBytesForData
\* entry in the file and the number of bytes in the file after offset 256 are
\* both width*height*componentCount*bitsPerComponent/8.
C13_TotalBytes ==
    (op.name = "save" /\ pc = "done" /\ ret = TRUE) =>
        /\ C13_IsByteCount(C13_TotalBytesWritten, op.args)
        /\ C13_IsByteCount(Len(disk.bytes) - 256, op.args)

\* The part of C13 the code keeps.
C13_TotalBytesBelow4GiB ==
    (op.name = "save" /\ op.args.w <= MaxDim /\ op.args.h <= MaxDim) =>
        C13_TotalBytes

-----------------------------------------------------------------------------
(* C14 *)

\* A 16-bit and a 32-bit quantity with their bytes in the reverse order, and
\* the low 16 bits of a 32-bit quantity.
Rev16(x) == Val16(Enc16(x, "BE"))
Rev32(x) == Val32(Enc32(x, "BE"))
Low16(x) == Val16(SubSeq(Enc32(x, "LE"), 1, 2))

\* C14, as the code has it: IFDEntry::swap reverses the bytes of id,
\* field_type and num_items always; it swaps value at 2-byte width (the low
\* 16 bits, the rest dropped) when, after swapping, the field type is short
\* (3) and, for the BitsPerSample tag, the item count is also 1; it swaps
\* value at 4-byte width in every other case.
C14_SwapWidths ==
    (sw.kind = "entry" /\ sw.n >= 1) =>
        LET a == sw.prev
            b == sw.cur
        IN  /\ b.id = Rev16(a.id)
            /\ b.field_type = Rev16(a.field_type)
            /\ b.num_items = Rev32(a.num_items)
            /\ b.value =
                  IF b.field_type = 3
                     /\ (b.id = IFD_BitsPerSample => b.num_items = 1)
                  THEN Rev16(Low16(a.value))
                  ELSE Rev32(a.value)

\* C14, as claimed: value is swapped at 2-byte width only for the
\* BitsPerSample tag with field type short and item count 1, and at 4-byte
\* width for every other entry, short-typed entries of other tags included.
C14_SwapWidthsClaimed ==
    (sw.kind = "entry" /\ sw.n >= 1) =>
        LET a == sw.prev
            b == sw.cur
        IN  /\ b.id = Rev16(a.id)
            /\ b.field_type = Rev16(a.field_type)
            /\ b.num_items = Rev32(a.num_items)
            /\ b.value =
                  IF b.id = IFD_BitsPerSample /\ b.field_type = 3
                     /\ b.num_items = 1
                  THEN Rev16(Low16(a.value))
                  ELSE Rev32(a.value)

C14_Witness ==
    /\ sw.kind = "entry" /\ sw.n = 1
    /\ sw.cur.id = IFD_Width /\ sw.cur.field_type = 3 /\ sw.cur.num_items = 1
    /\ sw.prev.value = 8192 /\ sw.cur.value = 32

-----------------------------------------------------------------------------
(* C15 *)

\* The entry e came out of a swap that took the 2-byte width for its value.
C15_TwoByteWidth(e) ==
    e.field_type = 3 /\ (e.id = IFD_BitsPerSample => e.num_items = 1)

\* C15, as the code has it: swap16 and swap32 applied twice give back every
\* 16-bit and 32-bit value; IFDEntry::swap applied twice gives back id,
\* field_type and num_items of every entry, and gives back value exactly
\* when value is 0 or neither application took the 2-byte width.
C15_SwapTwice ==
    (sw.n = 2) =>
        CASE sw.kind = "entry" ->
                /\ sw.cur.id = sw.from.id
                /\ sw.cur.field_type = sw.from.field_type
                /\ sw.cur.num_items = sw.from.num_items
                /\ sw.cur.value = sw.from.value
                      <=> \/ sw.from.value = 0
                          \/ /\ ~C15_TwoByteWidth(sw.prev)
                             /\ ~C15_TwoByteWidth(sw.cur)
          [] OTHER -> sw.cur = sw.from

\* C15, as claimed: IFDEntry::swap, swap16 and swap32 applied twice give back
\* exactly what they were given.
C15_SwapTwiceClaimed == (sw.n = 2) => sw.cur = sw.from

C15_Witness ==
    /\ sw.kind = "entry" /\ sw.n = 2
    /\ sw.from.id = 1 /\ sw.from.field_type = 768 /\ sw.from.value = 8192
    /\ sw.prev.id = IFD_Width /\ sw.prev.field_type = 3 /\ sw.prev.value = 32
    /\ sw.cur.id = sw.from.id /\ sw.cur.field_type = sw.from.field_type
    /\ sw.cur.value = 536870912

-----------------------------------------------------------------------------
(* C16 *)

\* The byte of the file that lies j bytes (from 1) after the data offset, or
\* 0, what the consumer's buffer held, where the file has ended.
C16_Raw(j) ==
    IF fr.offset_for_data + j <= Len(disk.bytes)
    THEN disk.bytes[fr.offset_for_data + j] ELSE 0

\* Byte k of a buffer of `asked` bytes read with units of `unit` bytes
\* reversed: every complete unit reversed, a trailing part left as read.
C16_Reversed(k, unit, asked) ==
    LET u == (k - 1) \div unit
    IN  IF (u + 1) * unit <= asked
        THEN C16_Raw(u * unit + (unit - ((k - 1) % unit)))
        ELSE C16_Raw(k)

\* C16: in every state of a load call the reader's two swap flags are not
\* both set; both are clear until the seek to the data offset is done (so the
\* header, directory and bits-per-component reads are not swapped) and in a
\* call that returned before it; they are set at most once, and from then on
\* the 16-bit flag is set exactly when component swapping was requested and
\* the resolved bitsPerComponent is 16, the 32-bit flag exactly when it was
\* requested and bitsPerComponent is 32.  What a consumer then reads through
\* the reader is the file's bytes with every complete 2-byte (4-byte) unit of
\* its buffer reversed when the 16-bit (32-bit) flag is set, unchanged when
\* none is.
C16_SwapFlags ==
    op.name = "load" =>
        /\ ~(f.swap_16b_data /\ f.swap_32b_data)
        /\ tr.flag_sets <= 1
        /\ (pc \in {"load_open", "load_header", "load_count", "load_scan",
                    "load_check", "load_bits", "load_seek"}
            \/ (pc = "done" /\ cb.calls = 0)) =>
              /\ ~f.swap_16b_data /\ ~f.swap_32b_data
              /\ tr.flag_sets = 0
        /\ (pc = "load_consumer" \/ cb.calls = 1) =>
              /\ f.swap_16b_data
                    <=> (fr.swap_component_data /\ fr.bits_per_component = 16)
              /\ f.swap_32b_data
                    <=> (fr.swap_component_data /\ fr.bits_per_component = 32)
              /\ tr.flag_sets
                    = (IF f.swap_16b_data \/ f.swap_32b_data THEN 1 ELSE 0)
        /\ (cb.calls = 1 /\ fr.offset_for_data >= 0) =>
              LET unit == IF f.swap_16b_data THEN 2
                          ELSE IF f.swap_32b_data THEN 4 ELSE 1
              IN  /\ Len(cb.data) = cb.asked
                  /\ \A k \in 1..cb.asked :
                        cb.data[k] = C16_Reversed(k, unit, cb.asked)

C16_Witness ==
    /\ op.name = "load" /\ pc = "done" /\ op.cons.kind = "reader"
    /\ cb.calls = 1 /\ cb.asked = 4 /\ ret = TRUE
    /\ f.swap_16b_data /\ ~f.swap_32b_data
    /\ cb.data = <<C16_Raw(2), C16_Raw(1), C16_Raw(4), C16_Raw(3)>>
    /\ C16_Raw(1) # C16_Raw(2)

====
